---- MODULE Spec2Model ----
(***************************************************************************)
(* WGCNA decision log: the recorder (append_decision_log.py) that appends  *)
(* one markdown entry per invocation, and the exporter                     *)
(* (export_resume_snapshot.py) that parses the log back into decision      *)
(* records and renders the resume snapshot.                                *)
(*                                                                         *)
(* Text is a sequence of one-character strings, so that trimming,          *)
(* splitting into lines and prefix tests are computed character by         *)
(* character as Python computes them.                                      *)
(***************************************************************************)
EXTENDS Integers, Sequences, FiniteSets

VARIABLES
    log_file,          \* the decision log: [exists, content]
    initial_log,       \* how the log path was found before the first run
    appended,          \* arguments of the recorder runs so far, in call order
    procs,             \* recorder processes under way: position and locals
    pc,                \* exporter position: idle / start / scan / parsed / done
    lines,             \* parse_decisions: lines
    idx,               \* parse_decisions: index of the next line of the loop
    current_heading,   \* parse_decisions: current_heading
    current_stage,     \* parse_decisions: current_stage
    approved,          \* parse_decisions: approved
    capture_approved,  \* parse_decisions: capture_approved
    decisions,         \* parse_decisions: decisions
    snapshot           \* text written by the exporter (<<>> before it ran)

vars == <<log_file, initial_log, appended, procs, pc, lines, idx, current_heading,
          current_stage, approved, capture_approved, decisions, snapshot>>

recorder_vars == <<log_file, initial_log, appended, procs>>

parser_vars == <<lines, idx, current_heading, current_stage, approved,
                 capture_approved, decisions>>

(***************************************************************************)
(* Bounds of the model.                                                    *)
(***************************************************************************)
MaxAppends == 2

MaxLines == 4

MaxDecisions == 13

MaxItems == 3

(***************************************************************************)
(* Python str operations on text.                                          *)
(***************************************************************************)
WhiteSpace == {" ", "\t", "\n", "\r"}

LineBreaks == {"\n", "\r"}

SetMin(S) == CHOOSE x \in S : \A y \in S : x <= y

SetMax(S) == CHOOSE x \in S : \A y \in S : x >= y

\* s.strip()
strip(s) ==
    LET keep == {i \in 1..Len(s) : s[i] \notin WhiteSpace}
    IN  IF keep = {} THEN <<>> ELSE SubSeq(s, SetMin(keep), SetMax(keep))

\* s.startswith(p)
startswith(s, p) == Len(s) >= Len(p) /\ SubSeq(s, 1, Len(p)) = p

\* the positions at which sub occurs in s
occurrences(s, sub) ==
    {i \in 1..(Len(s) - Len(sub) + 1) : SubSeq(s, i, i + Len(sub) - 1) = sub}

\* sub in s
contains(s, sub) == occurrences(s, sub) # {}

\* s.split(sep, 1)[1], for s that contains sep
split_once_rest(s, sep) ==
    SubSeq(s, SetMin(occurrences(s, sep)) + Len(sep), Len(s))

\* sep.join(parts)
RECURSIVE join(_, _)
join(parts, sep) ==
    IF parts = <<>> THEN <<>>
    ELSE IF Len(parts) = 1 THEN parts[1]
    ELSE parts[1] \o sep \o join(Tail(parts), sep)

\* position i of s is the last character of a line break: "\n", "\r" and
\* "\r\n" each end a line (a text read in universal-newlines mode)
ends_line(s, i) ==
    \/ s[i] = "\n"
    \/ s[i] = "\r" /\ ~(i < Len(s) /\ s[i + 1] = "\n")

\* the positions lo..hi of s that end a line, in order
RECURSIVE line_ends(_, _, _)
line_ends(s, lo, hi) ==
    IF lo > hi THEN <<>>
    ELSE IF lo = hi THEN (IF ends_line(s, lo) THEN <<lo>> ELSE <<>>)
    ELSE LET mid == (lo + hi) \div 2
         IN  line_ends(s, lo, mid) \o line_ends(s, mid + 1, hi)

\* s.splitlines(): a final line break opens no further line
splitlines(s) ==
    LET ends == line_ends(s, 1, Len(s))
        \* the first character of the line break that ends at e
        first(e) == IF s[e] = "\n" /\ e > 1 /\ s[e - 1] = "\r" THEN e - 1 ELSE e
        count == Len(ends)
        open == IF count = 0 THEN Len(s) > 0 ELSE ends[count] < Len(s)
    IN  [k \in 1..(count + IF open THEN 1 ELSE 0) |->
            SubSeq(s,
                   IF k = 1 THEN 1 ELSE ends[k - 1] + 1,
                   IF k <= count THEN first(ends[k]) - 1 ELSE Len(s))]

\* the character ` (a TLA+ string cannot hold it)
BT == "backtick"

(***************************************************************************)
(* Literals of the log format.                                             *)
(***************************************************************************)
HEADER_LINE ==
    <<"#", " ", "W", "G", "C", "N", "A", " ", "D", "e", "c", "i", "s", "i",
      "o", "n", " ", "L", "o", "g">>

\* header = "# WGCNA Decision Log\n\n"
HEADER == HEADER_LINE \o <<"\n", "\n">>

ENTRY_MARK == <<"#", "#", " ">>

STAGE_SEP == <<" ", "-", " ">>

BULLET_MARK == <<"-", " ">>

OPTIONS_TITLE ==
    <<"#", "#", "#", " ", "O", "p", "t", "i", "o", "n", "s", " ", "p", "r",
      "e", "s", "e", "n", "t", "e", "d">>

APPROVED_TITLE ==
    <<"#", "#", "#", " ", "A", "p", "p", "r", "o", "v", "e", "d", " ", "o",
      "p", "t", "i", "o", "n">>

RATIONALE_TITLE ==
    <<"#", "#", "#", " ", "R", "a", "t", "i", "o", "n", "a", "l", "e">>

RISKS_TITLE ==
    <<"#", "#", "#", " ", "D", "e", "f", "e", "r", "r", "e", "d", " ", "r",
      "i", "s", "k", "s">>

NOT_PROVIDED ==
    <<"-", " ", "[", "n", "o", "t", " ", "p", "r", "o", "v", "i", "d", "e",
      "d", "]">>

NONE_NOTED == <<"-", " ", "N", "o", "n", "e", " ", "n", "o", "t", "e", "d">>

NOT_RECORDED ==
    <<"[", "n", "o", "t", " ", "r", "e", "c", "o", "r", "d", "e", "d", "]">>

(***************************************************************************)
(* The recorder: append_decision_log.py                                    *)
(***************************************************************************)
NonBlank(v) == strip(v) # <<>>

\* "\n".join(f"- {v.strip()}" for v in values if v.strip())
_bulletize(values) ==
    LET kept == SelectSeq(values, NonBlank)
    IN  join([i \in 1..Len(kept) |-> BULLET_MARK \o strip(kept[i])], <<"\n">>)

\* x or default, for texts
or_default(x, default) == IF x # <<>> THEN x ELSE default

build_entry(timestamp, stage, approved_option, rationale, options_presented, deferred_risks) ==
    LET options_block == or_default(_bulletize(options_presented), NOT_PROVIDED)
        risks_block == or_default(_bulletize(deferred_risks), NONE_NOTED)
    IN  join(<< ENTRY_MARK \o timestamp \o STAGE_SEP \o stage,
                <<>>,
                OPTIONS_TITLE,
                options_block,
                <<>>,
                APPROVED_TITLE,
                BULLET_MARK \o strip(approved_option),
                <<>>,
                RATIONALE_TITLE,
                strip(rationale),
                <<>>,
                RISKS_TITLE,
                risks_block,
                <<>> >>, <<"\n">>)

MissingFile == [exists |-> FALSE, content |-> <<>>]

EmptyFile == [exists |-> TRUE, content |-> <<>>]

\* Path.write_text: the file is created or truncated, then written
write_text(file, text) == [exists |-> TRUE, content |-> text]

\* a recorder that writes the header on every run
ensure_header_always(file) == write_text(file, HEADER)

ensure_header(file) == IF file.exists THEN file ELSE write_text(file, HEADER)

\* log_path.open("a"): the file is created when missing, nothing is truncated
open_append(file) == [exists |-> TRUE, content |-> file.content]

\* a recorder that forgets the separator
separator_never(file) == <<>>

\* what main writes before the entry: "\n" if log_path.stat().st_size > 0
separator(file) == IF Len(file.content) > 0 THEN <<"\n">> ELSE <<>>

\* f.write(text) on a file opened for append
write_append(file, text) == [file EXCEPT !.content = @ \o text]

entry_of(a) ==
    build_entry(a.timestamp, a.stage, a.approved_option, a.rationale,
                a.option, a.deferred_risk)

\* the log after one run of main with the arguments a (timestamp resolved)
run_recorder(file, a) ==
    LET opened == open_append(ensure_header(file))
    IN  write_append(write_append(opened, separator(opened)), entry_of(a))

(***************************************************************************)
(* The arguments the recorder is run with.  Every field is free text; the  *)
(* runs vary one field of a plain invocation at a time.                    *)
(***************************************************************************)
BoundedSeq(S, n) == UNION {[1..k -> S] : k \in 0..n}

Plain ==
    [timestamp |-> <<"2">>, stage |-> <<"A">>, approved_option |-> <<"x">>,
     rationale |-> <<"r">>, option |-> <<>>, deferred_risk |-> <<>>]

\* --timestamp: <<>> is the option left out
Timestamps ==
    {<<>>, <<"1">>, <<"1", " ", "-">>, <<"1", " ", "-", " ", "2">>}

Stages ==
    {<<"B">>, <<"C", " ", "-", " ", "p", " ", "-", " ", "s">>, <<"A", " ">>}

ApprovedOptions == {<<"y">>, <<" ", "y", " ">>, <<" ">>}

Rationales == {<<"r", "\n", "#", "#", " ", "s">>}

OptionLists == {<< <<" ", " ">>, <<"o">>, <<>> >>}

RiskLists == {<< <<"k">> >>}

ArgsSet ==
    {Plain}
    \cup {[Plain EXCEPT !.timestamp = v] : v \in Timestamps}
    \cup {[Plain EXCEPT !.stage = v] : v \in Stages}
    \cup {[Plain EXCEPT !.approved_option = v] : v \in ApprovedOptions}
    \cup {[Plain EXCEPT !.rationale = v] : v \in Rationales}
    \cup {[Plain EXCEPT !.option = v] : v \in OptionLists}
    \cup {[Plain EXCEPT !.deferred_risk = v] : v \in RiskLists}

\* values of one repeated --option or --deferred-risk: blank, plain, padded,
\* empty, and a text of two lines
BulletItems ==
    {<<" ", " ">>, <<"o">>, <<" ", "p", " ">>, <<>>,
     <<"a", "\n", "-", " ", "b">>}

\* the plain invocation with a list of up to MaxItems options, or risks
BulletArgs ==
    {[Plain EXCEPT !.option = v] : v \in BoundedSeq(BulletItems, MaxItems)}
    \cup {[Plain EXCEPT !.deferred_risk = v] :
              v \in BoundedSeq(BulletItems, MaxItems)}

\* two recorder processes started against the same log path
Recorders == {1, 2}

\* the arguments of process p: its own stage, and one of two approved options
RecorderArgs(p) ==
    {[Plain EXCEPT !.stage = IF p = 1 THEN <<"A">> ELSE <<"B">>,
                   !.approved_option = v] : v \in {<<"x">>, <<"y">>}}

\* datetime.now().replace(microsecond=0).isoformat(): digits, "-", "T", ":"
NowValues == {<<"3">>}

\* timestamp = args.timestamp or datetime.now()...isoformat()
resolve_timestamp(a, now) == [a EXCEPT !.timestamp = or_default(@, now)]

(***************************************************************************)
(* The exporter's log parser: export_resume_snapshot.py, parse_decisions   *)
(***************************************************************************)
ParserStart ==
    [current_heading |-> <<>>, current_stage |-> <<>>, approved |-> <<>>,
     capture_approved |-> FALSE, decisions |-> <<>>]

\* a parser that reports the approved text as it is, without the placeholder
finalize_raw(st) ==
    IF st.current_heading # <<>>
    THEN Append(st.decisions,
                <<st.current_heading, st.current_stage, st.approved>>)
    ELSE st.decisions

\* a parser that finalizes an entry whether or not one is open
finalize_always(st) ==
    Append(st.decisions,
           <<st.current_heading, st.current_stage,
             or_default(st.approved, NOT_RECORDED)>>)

\* if current_heading:
\*     decisions.append((current_heading, current_stage,
\*                       approved or "[not recorded]"))
finalize(st) ==
    IF st.current_heading # <<>>
    THEN Append(st.decisions,
                <<st.current_heading, st.current_stage,
                  or_default(st.approved, NOT_RECORDED)>>)
    ELSE st.decisions

\* line[3:].strip()
heading_of(line) == strip(SubSeq(line, Len(ENTRY_MARK) + 1, Len(line)))

\* current_heading.split(" - ", 1)[1] if " - " in current_heading
\* else current_heading
stage_of(heading) ==
    IF contains(heading, STAGE_SEP)
    THEN split_once_rest(heading, STAGE_SEP)
    ELSE heading

\* line.strip()[2:].strip()
bullet_text(line) ==
    strip(SubSeq(strip(line), Len(BULLET_MARK) + 1, Len(strip(line))))

\* a parser that carries approved and capture_approved over a heading line
scan_line_keep(st, line) ==
    IF startswith(line, ENTRY_MARK)
    THEN [current_heading |-> heading_of(line),
          current_stage |-> stage_of(heading_of(line)),
          approved |-> st.approved,
          capture_approved |-> st.capture_approved,
          decisions |-> finalize(st)]
    ELSE IF strip(line) = APPROVED_TITLE
    THEN [st EXCEPT !.capture_approved = TRUE]
    ELSE IF st.capture_approved /\ startswith(strip(line), BULLET_MARK)
    THEN [st EXCEPT !.approved = bullet_text(line),
                    !.capture_approved = FALSE]
    ELSE st

\* one pass of the body of "for line in lines"
scan_line(st, line) ==
    IF startswith(line, ENTRY_MARK)
    THEN [current_heading |-> heading_of(line),
          current_stage |-> stage_of(heading_of(line)),
          approved |-> <<>>,
          capture_approved |-> FALSE,
          decisions |-> finalize(st)]
    ELSE IF strip(line) = APPROVED_TITLE
    THEN [st EXCEPT !.capture_approved = TRUE]
    ELSE IF st.capture_approved /\ startswith(strip(line), BULLET_MARK)
    THEN [st EXCEPT !.approved = bullet_text(line),
                    !.capture_approved = FALSE]
    ELSE st

RECURSIVE scan_lines(_, _, _)
scan_lines(st, ls, i) ==
    IF i > Len(ls) THEN st ELSE scan_lines(scan_line(st, ls[i]), ls, i + 1)

\* log_path.read_text(encoding="utf-8").splitlines()
read_lines(file) == splitlines(file.content)

parse_decisions(file) ==
    IF ~file.exists THEN <<>>
    ELSE finalize(scan_lines(ParserStart, read_lines(file), 1))

(***************************************************************************)
(* The exporter's renderer: export_resume_snapshot.py, render_snapshot     *)
(***************************************************************************)
SNAPSHOT_TITLE ==
    <<"#", " ", "W", "G", "C", "N", "A", " ", "R", "e", "s", "u", "m", "e",
      " ", "S", "n", "a", "p", "s", "h", "o", "t">>

GENERATED_LABEL ==
    <<"G", "e", "n", "e", "r", "a", "t", "e", "d", ":", " ">>

WORKSPACE_LABEL ==
    <<"W", "o", "r", "k", "s", "p", "a", "c", "e", ":", " ", BT>>

DECISION_LOG_LABEL ==
    <<"D", "e", "c", "i", "s", "i", "o", "n", " ", "l", "o", "g", ":", " ",
      BT>>

LATEST_TITLE ==
    <<"#", "#", " ", "L", "a", "t", "e", "s", "t", " ", "D", "e", "c", "i",
      "s", "i", "o", "n", "s">>

NO_DECISIONS ==
    <<"-", " ", "N", "o", " ", "p", "a", "r", "s", "e", "d", " ", "d", "e",
      "c", "i", "s", "i", "o", "n", "s", " ", "f", "o", "u", "n", "d", ".">>

ARTIFACTS_TITLE ==
    <<"#", "#", " ", "A", "v", "a", "i", "l", "a", "b", "l", "e", " ", "A",
      "r", "t", "i", "f", "a", "c", "t", "s">>

NO_ARTIFACTS ==
    <<"-", " ", "N", "o", " ", "k", "n", "o", "w", "n", " ", "a", "r", "t",
      "i", "f", "a", "c", "t", "s", " ", "f", "o", "u", "n", "d", ".">>

RESUME_TITLE ==
    <<"#", "#", " ", "R", "e", "s", "u", "m", "e", " ", "P", "r", "o", "m",
      "p", "t">>

RESUME_INTRO ==
    <<"U", "s", "e", " ", "t", "h", "i", "s", " ", "p", "r", "o", "m", "p",
      "t", " ", "i", "n", " ", "a", " ", "n", "e", "w", " ", "C", "o", "d",
      "e", "x", " ", "s", "e", "s", "s", "i", "o", "n", ":">>

FENCE_OPEN ==
    <<BT, BT, BT, "t", "e", "x", "t">>

USE_PREFIX ==
    <<"U", "s", "e", " ", BT>>

USE_AND ==
    <<BT, " ", "a", "n", "d", " ", BT>>

USE_SUFFIX ==
    <<BT, " ", "a", "s", " ", "c", "o", "n", "t", "e", "x", "t", " ", "a",
      "n", "d", " ", "c", "o", "n", "t", "i", "n", "u", "e", " ", "f", "r",
      "o", "m", " ", "t", "h", "e", " ", "l", "a", "t", "e", "s", "t", " ",
      "c", "o", "m", "p", "l", "e", "t", "e", "d", " ", "s", "t", "a", "g",
      "e", ".">>

FENCE_CLOSE ==
    <<BT, BT, BT>>


\* the 12 of decisions[-12:]
LATEST == 12

\* a renderer that keeps the first 12 decisions: decisions[:12]
first_decisions(ds) ==
    SubSeq(ds, 1, IF Len(ds) > LATEST THEN LATEST ELSE Len(ds))

\* decisions[-12:]
latest_decisions(ds) ==
    SubSeq(ds, IF Len(ds) > LATEST THEN Len(ds) - LATEST + 1 ELSE 1, Len(ds))

\* f"- {BT}{stage}{BT} -> {approved}"
decision_line(d) ==
    <<"-", " ", BT>> \o d[2] \o <<BT, " ", "-", ">", " ">> \o d[3]

\* p.is_relative_to(workspace), for absolute paths written as text
is_relative_to(p, workspace) ==
    p = workspace \/ startswith(p, workspace \o <<"/">>)

\* p.relative_to(workspace) if p.is_relative_to(workspace) else p
artifact_rel(p, workspace) ==
    IF is_relative_to(p, workspace)
    THEN IF p = workspace THEN <<".">>
         ELSE SubSeq(p, Len(workspace) + 2, Len(p))
    ELSE p

render_lines(workspace, output_path, decision_log_path, ds, artifacts, now) ==
    << SNAPSHOT_TITLE,
       <<>>,
       GENERATED_LABEL \o now,
       WORKSPACE_LABEL \o workspace \o <<BT>>,
       DECISION_LOG_LABEL \o decision_log_path \o <<BT>>,
       <<>>,
       LATEST_TITLE >>
    \o (IF ds # <<>>
        THEN [i \in 1..Len(latest_decisions(ds)) |->
                 decision_line(latest_decisions(ds)[i])]
        ELSE <<NO_DECISIONS>>)
    \o << <<>>, ARTIFACTS_TITLE >>
    \o (IF artifacts # <<>>
        THEN [i \in 1..Len(artifacts) |->
                 <<"-", " ", BT>> \o artifact_rel(artifacts[i], workspace)
                 \o <<BT>>]
        ELSE <<NO_ARTIFACTS>>)
    \o << <<>>,
          RESUME_TITLE,
          RESUME_INTRO,
          <<>>,
          FENCE_OPEN,
          USE_PREFIX \o output_path \o USE_AND \o decision_log_path
              \o USE_SUFFIX,
          FENCE_CLOSE,
          <<>> >>

render_snapshot(workspace, output_path, decision_log_path, ds, artifacts, now) ==
    join(render_lines(workspace, output_path, decision_log_path, ds,
                      artifacts, now), <<"\n">>)

(***************************************************************************)
(* Inputs of the exporter.                                                 *)
(***************************************************************************)
\* lines a log may hold: written by the recorder, or edited by hand
LogLines ==
    { HEADER_LINE,
      <<>>,
      <<"#", "#", " ", "C", " ", "-", " ", "p", " ", "-", " ", "s">>,
      <<"#", "#", " ", "B">>,
      <<"#", "#", " ">>,
      OPTIONS_TITLE,
      APPROVED_TITLE,
      <<" ", "-", " ", "y", " ">> }

RECURSIVE concat_lines(_)
concat_lines(ls) ==
    IF ls = <<>> THEN <<>> ELSE Head(ls) \o <<"\n">> \o concat_lines(Tail(ls))

\* the logs the parser is run on: no file, or up to MaxLines lines
LogInputs ==
    {MissingFile}
    \cup {[exists |-> TRUE, content |-> concat_lines(ls)] :
              ls \in BoundedSeq(LogLines, MaxLines)}

\* decisions as parse_decisions returns them: (heading, stage, approved)
DecisionValues ==
    { << <<"1", " ", "-", " ", "A">>, <<"A">>, <<"x">> >>,
      << <<"B">>, <<"B">>, NOT_RECORDED >> }

WORKSPACE == <<"/", "w">>

DECISION_LOG_PATH == <<"/", "w", "/", "l">>

OUTPUT_PATH == <<"/", "w", "/", "s">>

\* existing_artifacts: what the existence probe keeps
ArtifactLists == {<<>>, << <<"/", "w", "/", "l">>, <<"/", "a">> >>}

\* --output-path after resolution: the default file, or the path that
\* --decision-log resolves to
OutputPaths == {OUTPUT_PATH, DECISION_LOG_PATH}

\* logs as the recorder leaves them: no file, one run, or a second run after
\* a plain one
RecordedLogs ==
    {MissingFile}
    \cup {run_recorder(MissingFile, resolve_timestamp(a, now)) :
              a \in ArgsSet, now \in NowValues}
    \cup {run_recorder(run_recorder(MissingFile, Plain),
                       resolve_timestamp(a, now)) :
              a \in ArgsSet, now \in NowValues}

(***************************************************************************)
(* Actions.                                                                *)
(***************************************************************************)
\* append_decision_log.py, main: one run of the recorder
RecorderMain ==
    /\ pc = "idle"
    /\ Len(appended) < MaxAppends
    /\ \E args \in ArgsSet, now \in NowValues :
         LET a == resolve_timestamp(args, now)
         IN  /\ log_file' = run_recorder(log_file, a)
             /\ appended' = Append(appended, a)
    /\ UNCHANGED <<initial_log, procs, pc, parser_vars, snapshot>>

\* append_decision_log.py, main: the first run, given a list of options or
\* of deferred risks
RecorderMainLists ==
    /\ pc = "idle"
    /\ appended = <<>>
    /\ \E args \in BulletArgs, now \in NowValues :
         LET a == resolve_timestamp(args, now)
         IN  /\ log_file' = run_recorder(log_file, a)
             /\ appended' = Append(appended, a)
    /\ UNCHANGED <<initial_log, procs, pc, parser_vars, snapshot>>

\* ensure_header: if path.exists(): return
ExistsCheck(p) ==
    /\ procs[p].pc = "check"
    /\ procs' = [procs EXCEPT ![p].pc =
                     IF log_file.exists THEN "open" ELSE "header"]
    /\ UNCHANGED <<log_file, initial_log, appended, pc, parser_vars, snapshot>>

\* ensure_header: path.write_text(header)
HeaderCreate(p) ==
    /\ procs[p].pc = "header"
    /\ log_file' = write_text(log_file, HEADER)
    /\ procs' = [procs EXCEPT ![p].pc = "open"]
    /\ UNCHANGED <<initial_log, appended, pc, parser_vars, snapshot>>

\* main: log_path.open("a")
OpenAppend(p) ==
    /\ procs[p].pc = "open"
    /\ log_file' = open_append(log_file)
    /\ procs' = [procs EXCEPT ![p].pc = "stat"]
    /\ UNCHANGED <<initial_log, appended, pc, parser_vars, snapshot>>

\* main: if log_path.stat().st_size > 0: f.write("\n"), kept in f's buffer
SizeCheck(p) ==
    /\ procs[p].pc = "stat"
    /\ procs' = [procs EXCEPT ![p].sep = separator(log_file),
                              ![p].pc = "write"]
    /\ UNCHANGED <<log_file, initial_log, appended, pc, parser_vars, snapshot>>

\* main: f.write(entry) and the end of the with block: the buffer is written
\* at the end of the file
EntryWrite(p) ==
    /\ procs[p].pc = "write"
    /\ log_file' = write_append(write_append(log_file, procs[p].sep),
                                entry_of(procs[p].args))
    /\ appended' = Append(appended, procs[p].args)
    /\ procs' = [procs EXCEPT ![p].pc = "done"]
    /\ UNCHANGED <<initial_log, pc, parser_vars, snapshot>>

ParserState ==
    [current_heading |-> current_heading, current_stage |-> current_stage,
     approved |-> approved, capture_approved |-> capture_approved,
     decisions |-> decisions]

SetParser(st) ==
    /\ current_heading' = st.current_heading
    /\ current_stage' = st.current_stage
    /\ approved' = st.approved
    /\ capture_approved' = st.capture_approved
    /\ decisions' = st.decisions

\* parse_decisions: the path does not exist, return []
ParseMissing ==
    /\ pc = "start"
    /\ ~log_file.exists
    /\ pc' = "parsed"
    /\ UNCHANGED <<recorder_vars, parser_vars, snapshot>>

\* parse_decisions: read the lines and set the loop's variables
ParseRead ==
    /\ pc = "start"
    /\ log_file.exists
    /\ lines' = read_lines(log_file)
    /\ idx' = 1
    /\ SetParser(ParserStart)
    /\ pc' = "scan"
    /\ UNCHANGED <<recorder_vars, snapshot>>

\* parse_decisions: one iteration of the loop
ScanLine ==
    /\ pc = "scan"
    /\ idx <= Len(lines)
    /\ SetParser(scan_line(ParserState, lines[idx]))
    /\ idx' = idx + 1
    /\ UNCHANGED <<recorder_vars, pc, lines, snapshot>>

\* parse_decisions: after the loop, the open entry is finalized
ParseReturn ==
    /\ pc = "scan"
    /\ idx > Len(lines)
    /\ decisions' = finalize(ParserState)
    /\ pc' = "parsed"
    /\ UNCHANGED <<recorder_vars, lines, idx, current_heading, current_stage,
                   approved, capture_approved, snapshot>>

\* export_resume_snapshot.py, main: render the decisions and write the text
ExportSnapshot ==
    /\ pc = "parsed"
    /\ \E artifacts \in ArtifactLists, now \in NowValues :
         snapshot' = render_snapshot(WORKSPACE, OUTPUT_PATH, DECISION_LOG_PATH,
                                     decisions, artifacts, now)
    /\ pc' = "done"
    /\ UNCHANGED <<recorder_vars, parser_vars>>

\* export_resume_snapshot.py, main, as one step: parse the decision log,
\* render the snapshot, write it to the output path
ExporterMain ==
    /\ pc \in {"start", "done"}
    /\ \E output_path \in OutputPaths, artifacts \in ArtifactLists,
          now \in NowValues :
         LET ds == parse_decisions(log_file)
             text == render_snapshot(WORKSPACE, output_path,
                                     DECISION_LOG_PATH, ds, artifacts, now)
         IN  /\ decisions' = ds
             /\ snapshot' = text
             /\ log_file' = IF output_path = DECISION_LOG_PATH
                            THEN write_text(log_file, text)
                            ELSE log_file
    /\ pc' = IF pc = "start" THEN "done" ELSE "again"
    /\ UNCHANGED <<initial_log, appended, procs, lines, idx, current_heading,
                   current_stage, approved, capture_approved>>

(***************************************************************************)
(* Spec: recorder runs, one after another, on one log path.                *)
(***************************************************************************)
SetParserInit ==
    /\ current_heading = <<>>
    /\ current_stage = <<>>
    /\ approved = <<>>
    /\ capture_approved = FALSE
    /\ decisions = <<>>

Init ==
    /\ log_file \in {MissingFile, EmptyFile}
    /\ initial_log = log_file
    /\ appended = <<>>
    /\ procs = <<>>
    /\ pc = "idle"
    /\ lines = <<>>
    /\ idx = 1
    /\ SetParserInit
    /\ snapshot = <<>>

Next == RecorderMain

Spec == Init /\ [][Next]_vars

(***************************************************************************)
(* SpecBullets: one recorder run with a list of options or of risks.       *)
(***************************************************************************)
NextBullets == RecorderMainLists

SpecBullets == Init /\ [][NextBullets]_vars

(***************************************************************************)
(* SpecRace: two recorder processes interleaved on a missing log path.     *)
(***************************************************************************)
InitRace ==
    /\ log_file = MissingFile
    /\ initial_log = log_file
    /\ appended = <<>>
    /\ procs \in {[p \in Recorders |->
                      [pc |-> "check", args |-> IF p = 1 THEN a1 ELSE a2,
                       sep |-> <<>>]] :
                  a1 \in RecorderArgs(1), a2 \in RecorderArgs(2)}
    /\ pc = "idle"
    /\ lines = <<>>
    /\ idx = 1
    /\ SetParserInit
    /\ snapshot = <<>>

NextRace ==
    \E p \in Recorders :
        \/ ExistsCheck(p)
        \/ HeaderCreate(p)
        \/ OpenAppend(p)
        \/ SizeCheck(p)
        \/ EntryWrite(p)

SpecRace == InitRace /\ [][NextRace]_vars

(***************************************************************************)
(* SpecExport: the exporter run on a log of arbitrary lines.               *)
(***************************************************************************)
InitExport ==
    /\ log_file \in LogInputs
    /\ initial_log = log_file
    /\ appended = <<>>
    /\ procs = <<>>
    /\ pc = "start"
    /\ lines = <<>>
    /\ idx = 1
    /\ SetParserInit
    /\ snapshot = <<>>

NextExport ==
    \/ ParseMissing
    \/ ParseRead
    \/ ScanLine
    \/ ParseReturn
    \/ ExportSnapshot

SpecExport == InitExport /\ [][NextExport]_vars

(***************************************************************************)
(* SpecRegenerate: the exporter run twice on a log the recorder wrote.     *)
(***************************************************************************)
InitRegenerate ==
    /\ log_file \in RecordedLogs
    /\ initial_log = log_file
    /\ appended = <<>>
    /\ procs = <<>>
    /\ pc = "start"
    /\ lines = <<>>
    /\ idx = 1
    /\ SetParserInit
    /\ snapshot = <<>>

NextRegenerate == ExporterMain

SpecRegenerate == InitRegenerate /\ [][NextRegenerate]_vars

(***************************************************************************)
(* SpecRender: the renderer run on an arbitrary decision sequence.         *)
(***************************************************************************)
InitRender ==
    /\ log_file = MissingFile
    /\ initial_log = log_file
    /\ appended = <<>>
    /\ procs = <<>>
    /\ pc = "parsed"
    /\ lines = <<>>
    /\ idx = 1
    /\ current_heading = <<>>
    /\ current_stage = <<>>
    /\ approved = <<>>
    /\ capture_approved = FALSE
    /\ decisions \in BoundedSeq(DecisionValues, MaxDecisions)
    /\ snapshot = <<>>

NextRender == ExportSnapshot

SpecRender == InitRender /\ [][NextRender]_vars

(***************************************************************************)
(* Claims about the recorder, checked under Spec.                          *)
(***************************************************************************)
IsPrefix(s, t) == startswith(t, s)

ParsedLog == parse_decisions(log_file)

DistinctPairs ==
    \A i, j \in 1..Len(appended) :
        (appended[i].stage = appended[j].stage
         /\ appended[i].approved_option = appended[j].approved_option)
        => i = j

\* C1: round trip of append then parse.  Whenever the runs so far have
\* pairwise distinct (stage, approvedOption) pairs, parsing the log returns
\* exactly one record per run, in call order, and record i carries the stage
\* and the approved option that run i was given.
C1_RoundTrip ==
    DistinctPairs =>
        /\ Len(ParsedLog) = Len(appended)
        /\ \A i \in 1..Len(appended) :
               /\ i <= Len(ParsedLog)
               /\ ParsedLog[i][2] = appended[i].stage
               /\ ParsedLog[i][3] = appended[i].approved_option

\* C2: no separator before the first entry.  After the first run on a path
\* that did not exist the file is the header line, one blank line, and then
\* the entry's "## " heading line.
C2_NoSeparatorBeforeFirstEntry ==
    (~initial_log.exists /\ Len(appended) = 1) =>
        LET ls == splitlines(log_file.content)
        IN  /\ Len(ls) >= 3
            /\ ls[1] = HEADER_LINE
            /\ ls[2] = <<>>
            /\ startswith(ls[3], ENTRY_MARK)

\* C3: separator between consecutive entries.  A run on a log that already
\* holds an entry writes exactly one "\n" and then the entry after whatever
\* the log ended with, so that the lines of the log become the old lines, one
\* blank line, and the lines of the new entry.
C3_OneSeparatorBetweenEntries ==
    [][(Len(appended) >= 1 /\ appended' # appended) =>
          LET entry == entry_of(appended'[Len(appended')])
          IN  /\ log_file'.content = log_file.content \o <<"\n">> \o entry
              /\ splitlines(log_file'.content) =
                     splitlines(log_file.content) \o << <<>> >>
                     \o splitlines(entry)]_vars

\* a second run has been made, and the log ends with "\n" and its entry
C3_Witness ==
    /\ Len(appended) = 2
    /\ LET tail == <<"\n">> \o entry_of(appended[2])
           n == Len(log_file.content)
       IN  /\ n > Len(tail)
           /\ SubSeq(log_file.content, n - Len(tail) + 1, n) = tail

\* C4: the log is append-only.  Every run of the recorder leaves the previous
\* content of the file as a prefix of the new content, and never removes the
\* file.
C4_AppendOnly ==
    [][/\ IsPrefix(log_file.content, log_file'.content)
       /\ (log_file.exists => log_file'.exists)]_vars

\* two runs were made on a path that did not exist: header, then two entries
C4_Witness ==
    /\ Len(appended) = 2
    /\ ~initial_log.exists
    /\ startswith(log_file.content, HEADER)
    /\ Len(log_file.content) > Len(HEADER) + Len(entry_of(appended[1]))

\* the text of s after its first n characters
Drop(s, n) == SubSeq(s, n + 1, Len(s))

\* text is the entries of the runs from k on, each after at most one "\n"
RECURSIVE IsEntryBlocks(_, _)
IsEntryBlocks(text, k) ==
    IF k > Len(appended) THEN text = <<>>
    ELSE \E sep \in {<<>>, <<"\n">>} :
            LET block == sep \o entry_of(appended[k])
            IN  /\ startswith(text, block)
                /\ IsEntryBlocks(Drop(text, Len(block)), k + 1)

\* C5: header invariant.  From a missing file and from a zero-byte file alike,
\* once a run has been made the log begins with the header line and a blank
\* line, the entries follow in call order, and the header line occurs once.
C5_HeaderInvariant ==
    Len(appended) >= 1 =>
        /\ startswith(log_file.content, HEADER)
        /\ IsEntryBlocks(Drop(log_file.content, Len(HEADER)), 1)
        /\ Cardinality({i \in 1..Len(splitlines(log_file.content)) :
                           splitlines(log_file.content)[i] = HEADER_LINE}) = 1

\* C6: append semantics and order.  Every run extends the parsed history by
\* exactly one record at the end: the records parsed before the run keep
\* their values and positions, and one record follows them.
C6_AppendExtendsParse ==
    [][appended' # appended =>
          LET before == parse_decisions(log_file)
              after == parse_decisions(log_file')
          IN  /\ Len(after) = Len(before) + 1
              /\ SubSeq(after, 1, Len(before)) = before]_vars

\* st is the text of h after the first " - " of h, or h when h holds none
IsStageOf(h, st) ==
    LET seps == {k \in 1..(Len(h) - 2) : SubSeq(h, k, k + 2) = STAGE_SEP}
    IN  IF seps = {} THEN st = h
        ELSE \E k \in seps :
                /\ \A j \in seps : k <= j
                /\ st = SubSeq(h, k + 3, Len(h))

\* C10: separator fidelity.  The stage of every parsed record is its heading
\* text after the first " - " (the whole heading text when there is none);
\* and for an entry the recorder wrote with a timestamp that contains no
\* " - ", the parsed stage is the stage the run was given.
C10_SeparatorFidelity ==
    /\ \A k \in 1..Len(ParsedLog) : IsStageOf(ParsedLog[k][1], ParsedLog[k][2])
    /\ (Len(appended) >= 1 /\ ~contains(appended[1].timestamp, STAGE_SEP)) =>
           /\ ParsedLog # <<>>
           /\ ParsedLog[1][2] = appended[1].stage

(***************************************************************************)
(* Claims about interleaved recorders, checked under SpecRace.             *)
(***************************************************************************)
AllDone == \A p \in Recorders : procs[p].pc = "done"

\* C15: interleaved recorders.  In every interleaving of the steps of two
\* recorder processes on a missing log path, an entry whose write is
\* complete stays in the file, and when both processes are done the file
\* begins with the header, holds the header line once, and holds both
\* entries.
C15_InterleavedRecorders ==
    /\ \A k \in 1..Len(appended) :
           contains(log_file.content, entry_of(appended[k]))
    /\ AllDone =>
           /\ startswith(log_file.content, HEADER)
           /\ Cardinality({i \in 1..Len(splitlines(log_file.content)) :
                              splitlines(log_file.content)[i] = HEADER_LINE}) = 1
           /\ \A p \in Recorders :
                  contains(log_file.content, entry_of(procs[p].args))

(***************************************************************************)
(* Claims about the serialized lists, checked under SpecBullets.           *)
(***************************************************************************)
\* the index of the first line of ls that is text
FirstLine(ls, text) == SetMin({i \in 1..Len(ls) : ls[i] = text})

\* one bullet "- <trimmed item>" per item that is not blank, in order
RECURSIVE ItemBullets(_)
ItemBullets(values) ==
    IF values = <<>> THEN <<>>
    ELSE (IF strip(Head(values)) # <<>>
          THEN << BULLET_MARK \o strip(Head(values)) >>
          ELSE <<>>)
         \o ItemBullets(Tail(values))

\* the bullet lines a section must hold for the list values
SectionBullets(values, placeholder) ==
    IF ItemBullets(values) = <<>> THEN <<placeholder>> ELSE ItemBullets(values)

\* the lines of the log's "Options presented" section: after its title, up
\* to the blank line before the "Approved option" title
OptionsSection ==
    LET ls == splitlines(log_file.content)
    IN  SubSeq(ls, FirstLine(ls, OPTIONS_TITLE) + 1,
               FirstLine(ls, APPROVED_TITLE) - 2)

\* the lines of the log's "Deferred risks" section: after its title
RisksSection ==
    LET ls == splitlines(log_file.content)
    IN  SubSeq(ls, FirstLine(ls, RISKS_TITLE) + 1, Len(ls))

\* C11: bullet cleanup.  After a run, the lines of the "Options presented"
\* section are exactly one line "- <trimmed item>" per option that is not
\* blank after trimming, in the order given, or the one line
\* "- [not provided]" when no option is left; and likewise the "Deferred
\* risks" section, with "- None noted".
C11_BulletCleanup ==
    Len(appended) = 1 =>
        /\ OptionsSection = SectionBullets(appended[1].option, NOT_PROVIDED)
        /\ RisksSection = SectionBullets(appended[1].deferred_risk, NONE_NOTED)

(***************************************************************************)
(* Claims about the parser, checked under SpecExport.                      *)
(***************************************************************************)
Parsed == pc \in {"parsed", "done"}

\* the k-th smallest element of a set of numbers
Nth(S, k) == CHOOSE e \in S : Cardinality({x \in S : x <= e}) = k

\* the lines that start with "## "
HeadingLines == {i \in 1..Len(lines) : startswith(lines[i], ENTRY_MARK)}

\* the "## " lines with a heading text: the entries that get a record
EntryLines ==
    {i \in HeadingLines : strip(SubSeq(lines[i], 4, Len(lines[i]))) # <<>>}

\* the last line of the entry that starts at line i
EntryEnd(i) ==
    IF \E j \in HeadingLines : j > i
    THEN CHOOSE j \in (i..Len(lines)) :
             /\ j + 1 \in HeadingLines
             /\ \A m \in HeadingLines : m > i => m >= j + 1
    ELSE Len(lines)

\* the entry at line i has an "### Approved option" title with a bullet after
HasApprovedBullet(i) ==
    \E t, b \in (i + 1)..EntryEnd(i) :
        /\ t < b
        /\ strip(lines[t]) = APPROVED_TITLE
        /\ startswith(strip(lines[b]), BULLET_MARK)

HasLine(i, text) == \E t \in (i + 1)..EntryEnd(i) : strip(lines[t]) = text

\* the first half of C10 on arbitrary logs: every record's stage is its
\* heading text after the first " - "
HeadingSplitsOnFirstSeparator ==
    \A k \in 1..Len(decisions) : IsStageOf(decisions[k][1], decisions[k][2])

\* C7: missing-approval tolerance.  No record ever has an empty approved
\* value, and when the parse is over every entry in which no bullet follows
\* an "### Approved option" title has the approved value "[not recorded]".
C7_MissingApproval ==
    /\ \A k \in 1..Len(decisions) : decisions[k][3] # <<>>
    /\ Parsed =>
           /\ Len(decisions) = Cardinality(EntryLines)
           /\ \A k \in 1..Len(decisions) :
                  ~HasApprovedBullet(Nth(EntryLines, k)) =>
                      decisions[k][3] = NOT_RECORDED

\* a parsed entry with an "Options presented" title and a bullet but no
\* "Approved option" title, reported as "[not recorded]"
C7_Witness ==
    /\ Parsed
    /\ \E k \in 1..Len(decisions) :
           LET i == Nth(EntryLines, k)
           IN  /\ HasLine(i, OPTIONS_TITLE)
               /\ \E b \in (i + 1)..EntryEnd(i) :
                      startswith(strip(lines[b]), BULLET_MARK)
               /\ ~HasLine(i, APPROVED_TITLE)
               /\ decisions[k][3] = NOT_RECORDED

\* C8: empty-log tolerance.  The parse of a missing path, of a zero-byte
\* file, and of any log without a line that starts with "## " ends with the
\* empty record sequence.
C8_EmptyLog ==
    (/\ Parsed
     /\ \/ ~log_file.exists
        \/ log_file.content = <<>>
        \/ \A i \in 1..Len(splitlines(log_file.content)) :
               ~startswith(splitlines(log_file.content)[i], ENTRY_MARK))
    => decisions = <<>>

\* the parse of a zero-byte file is over
C8_Witness ==
    /\ pc = "parsed"
    /\ log_file = EmptyFile
    /\ decisions = <<>>

\* C12: one record per heading line.  When the parse is over, the number of
\* records equals the number of lines that start with "## ", and record k is
\* the record of the k-th such line: its heading is that line's text.
C12_OneRecordPerHeadingLine ==
    Parsed =>
        /\ Len(decisions) = Cardinality(HeadingLines)
        /\ \A k \in 1..Len(decisions) :
               k <= Cardinality(HeadingLines)
               /\ decisions[k][1] = heading_of(lines[Nth(HeadingLines, k)])

\* a "### " section title
IsSectionTitle(line) == startswith(strip(line), <<"#", "#", "#", " ">>)

\* line b is a bullet of the "Approved option" section of the entry at line
\* i: an "### Approved option" title precedes it in the entry, with no other
\* section title in between
InApprovedSection(i, b) ==
    /\ startswith(strip(lines[b]), BULLET_MARK)
    /\ \E t \in (i + 1)..(b - 1) :
           /\ strip(lines[t]) = APPROVED_TITLE
           /\ \A m \in (t + 1)..(b - 1) : ~IsSectionTitle(lines[m])

\* C13: approved-option capture stays inside the "Approved option" section.
\* When the parse is over, the approved text of every record is either the
\* placeholder "[not recorded]" or the text of a bullet line of its entry
\* that lies after the entry's "### Approved option" title and before the
\* next "### " title.
C13_CaptureInsideSection ==
    Parsed =>
        \A k \in 1..Len(decisions) :
            \/ decisions[k][3] = NOT_RECORDED
            \/ \E b \in (Nth(EntryLines, k) + 1)..EntryEnd(Nth(EntryLines, k)) :
                   /\ InApprovedSection(Nth(EntryLines, k), b)
                   /\ decisions[k][3] = bullet_text(lines[b])

\* the lines of the entry that starts at line i: from its heading line up to,
\* not including, the next "## " line
OwnLines(i) == SubSeq(lines, i, EntryEnd(i))

\* the records of a log that holds the lines ls and nothing else
RecordsOf(ls) == finalize(scan_lines(ParserStart, ls, 1))

\* C14: entry locality of the parser state.  Right after a "## " line is
\* scanned, approved is empty and captureApproved is false; and when the
\* parse is over every record is the record its own lines give when they are
\* parsed alone, whatever the lines of the other entries are.
C14_EntryLocality ==
    /\ (pc = "scan" /\ idx > 1 /\ startswith(lines[idx - 1], ENTRY_MARK)) =>
           (approved = <<>> /\ ~capture_approved)
    /\ Parsed =>
           \A k \in 1..Len(decisions) :
               /\ k <= Cardinality(EntryLines)
               /\ RecordsOf(OwnLines(Nth(EntryLines, k))) = <<decisions[k]>>

\* an entry with a pending "### Approved option" title is followed by an
\* entry that holds a bullet and no title: the second has "[not recorded]"
C14_Witness ==
    /\ Parsed
    /\ Len(decisions) = 2
    /\ LET i == Nth(EntryLines, 1)
           j == Nth(EntryLines, 2)
       IN  /\ HasLine(i, APPROVED_TITLE)
           /\ ~HasApprovedBullet(i)
           /\ ~HasLine(j, APPROVED_TITLE)
           /\ \E b \in (j + 1)..EntryEnd(j) :
                  startswith(strip(lines[b]), BULLET_MARK)
           /\ decisions[2][3] = NOT_RECORDED

(***************************************************************************)
(* Claims about the renderer, checked under SpecRender.                    *)
(***************************************************************************)
\* the lines of the snapshot's "Latest Decisions" section: those after the
\* title line, up to the next blank line
LatestSection ==
    LET ls == splitlines(snapshot)
        title == SetMin({i \in 1..Len(ls) : ls[i] = LATEST_TITLE})
        blank == SetMin({i \in 1..Len(ls) : i > title /\ ls[i] = <<>>})
    IN  SubSeq(ls, title + 1, blank - 1)

\* C9: truncation of the rendered history.  For n decisions the section
\* lists the last min(n, 12) of them, oldest first, one line each with the
\* stage and the approved option; for n = 0 it is the placeholder line alone.
C9_LatestTwelve ==
    pc = "done" =>
        LET n == Len(decisions)
            m == IF n < 12 THEN n ELSE 12
            section == LatestSection
        IN  IF n = 0 THEN section = <<NO_DECISIONS>>
            ELSE /\ Len(section) = m
                 /\ \A j \in 1..m :
                        section[j] =
                            <<"-", " ", BT>> \o decisions[n - m + j][2]
                            \o <<BT, " ", "-", ">", " ">>
                            \o decisions[n - m + j][3]

\* more than 12 decisions were rendered, and the oldest one, which differs
\* from the first one shown, is left out
C9_Witness ==
    /\ pc = "done"
    /\ Len(decisions) > 12
    /\ decisions[1] # decisions[Len(decisions) - 11]
    /\ Len(LatestSection) = 12

(***************************************************************************)
(* Claims about the exporter's files, checked under SpecRegenerate.        *)
(***************************************************************************)
\* the lines of the "Latest Decisions" section of a snapshot text
DecisionLinesOf(text) ==
    LET ls == splitlines(text)
        title == SetMin({i \in 1..Len(ls) : ls[i] = LATEST_TITLE})
        blank == SetMin({i \in 1..Len(ls) : i > title /\ ls[i] = <<>>})
    IN  SubSeq(ls, title + 1, blank - 1)

\* C16: export does not touch the decision log.  Every run of the exporter
\* leaves the decision log file as it was, and the snapshot written by a
\* second run lists the same decisions as the one written by the first.
C16_ExportLeavesLog ==
    [][pc' # pc =>
          /\ log_file' = log_file
          /\ pc = "done" =>
                 DecisionLinesOf(snapshot') = DecisionLinesOf(snapshot)]_vars

====
